---- MODULE Spec2Model ----
(***************************************************************************)
(* Model of server/models.py: the EmailAddress entity and its field        *)
(* validator validate_email, together with the SQLAlchemy session          *)
(* lifecycle through which the validator is reached (construction with     *)
(* keyword arguments, attribute assignment, session.add, session.commit).  *)
(*                                                                         *)
(* Python values are records [t |-> type name, v |-> payload].  A str is   *)
(* the sequence of its characters; an int or bool is the sequence of its   *)
(* decimal digits; a list is the sequence of its elements; None has the    *)
(* empty payload.                                                          *)
(***************************************************************************)
EXTENDS Naturals, Sequences, FiniteSets, TLC

VARIABLES committed, txn, objs, session, last, ops

vars == <<committed, txn, objs, session, last, ops>>

-----------------------------------------------------------------------------
(* Bounds of the model *)

MaxObjects == 2
MaxOps == 6
MaxOpsShort == 4
MaxRows == 2

(* len(address) > 254 *)
MaxEmailLen == 254

-----------------------------------------------------------------------------
(* Python values *)

None == [t |-> "NoneType", v |-> <<>>]
Str(s) == [t |-> "str", v |-> s]
Int(digits) == [t |-> "int", v |-> digits]
Bool(digits) == [t |-> "bool", v |-> digits]
List(elems) == [t |-> "list", v |-> elems]

IsStr(x) == x.t = "str"

(* bool(x), as `not address` evaluates it *)
Truthy(x) ==
    CASE x.t = "NoneType" -> FALSE
      [] x.t = "str"      -> Len(x.v) > 0
      [] x.t = "list"     -> Len(x.v) > 0
      [] x.t = "int"      -> x.v # <<"0">>
      [] x.t = "bool"     -> x.v # <<"0">>

(* '@' in address *)
Contains(s, c) == \E i \in 1..Len(s) : s[i] = c

(* position of the first occurrence of c in s, Len(s)+1 if there is none *)
Find(s, c) ==
    IF Contains(s, c)
    THEN CHOOSE i \in 1..Len(s) : s[i] = c /\ \A j \in 1..(i - 1) : s[j] # c
    ELSE Len(s) + 1

(* s.split(c): the segments of s between occurrences of c *)
RECURSIVE Split(_, _)
Split(s, c) ==
    LET p == Find(s, c) IN
    IF p > Len(s) THEN <<s>>
    ELSE <<SubSeq(s, 1, p - 1)>> \o Split(SubSeq(s, p + 1, Len(s)), c)

hotmail == <<"h","o","t","m","a","i","l",".","c","o","m">>
yahoo == <<"y","a","h","o","o",".","c","o","m">>

(* ["hotmail.com", "yahoo.com"] *)
BlockedDomains == {hotmail, yahoo}

(* address.split("@")[1] in ["hotmail.com", "yahoo.com"] *)
DomainBlocked(s) == Split(s, "@")[2] \in BlockedDomains

-----------------------------------------------------------------------------
(* Error messages *)

OK == "ok"
ErrPresent == "Email must be present."
ErrString == "Email must be a string."
ErrFormat == "Email must have an '@' in the address."
ErrUnique == "Email must be unique."
ErrLong == "Email is too long."
ErrDomain == "Email cannot be a hotmail or yahoo address."

(* the checks in the order the validator applies them *)
CheckOrder == <<"presence", "type", "format", "uniqueness", "length", "domain">>

-----------------------------------------------------------------------------
(* The validator *)

(* mutant of Absent: `address is None or address == ""` in place of `not address` *)
AbsentNoneOrEmpty(address) ==
    address.t = "NoneType" \/ (IsStr(address) /\ Len(address.v) = 0)

(* not address *)
Absent(address) == ~Truthy(address)

(* '@' not in address *)
NoAtSign(address) == ~Contains(address.v, "@")

(* mutant of Duplicate: the lookup also matches the backup_email column *)
DuplicateAnyColumn(address, rows) ==
    \E id \in DOMAIN rows :
        rows[id].email = address \/ rows[id].backup_email = address

(* mutant of Duplicate: filter_by(backup_email = address) *)
DuplicateBackupColumn(address, rows) ==
    \E id \in DOMAIN rows : rows[id].backup_email = address

(* db.session.query(EmailAddress.id).filter_by(email = address).first() is not None,
   over the rows the session sees *)
Duplicate(address, rows) == \E id \in DOMAIN rows : rows[id].email = address

(* mutant of TooLong: len(address) >= 254 *)
TooLongOffByOne(address) == Len(address.v) >= MaxEmailLen

(* len(address) > 254 *)
TooLong(address) == Len(address.v) > MaxEmailLen

(* raise ValueError(msg) in the n-th check; msg = OK: return address after it *)
Raise(msg, n) == [error |-> msg, checks |-> SubSeq(CheckOrder, 1, n)]

(* mutant of validate_email: the length check placed before the duplicate lookup *)
validate_email_length_first(self, key, address, rows) ==
    IF Absent(address) THEN Raise(ErrPresent, 1)
    ELSE IF ~IsStr(address) THEN Raise(ErrString, 2)
    ELSE IF NoAtSign(address) THEN Raise(ErrFormat, 3)
    ELSE IF TooLong(address) THEN Raise(ErrLong, 5)
    ELSE IF Duplicate(address, rows) THEN Raise(ErrUnique, 4)
    ELSE IF DomainBlocked(address.v) THEN Raise(ErrDomain, 6)
    ELSE Raise(OK, 6)

(* mutant of validate_email: the lookup leaves out the instance's own row,
   filter(EmailAddress.id != self.id) *)
validate_email_excluding_self(self, key, address, rows) ==
    IF Absent(address) THEN Raise(ErrPresent, 1)
    ELSE IF ~IsStr(address) THEN Raise(ErrString, 2)
    ELSE IF NoAtSign(address) THEN Raise(ErrFormat, 3)
    ELSE IF Duplicate(address, [id \in DOMAIN rows \ {self} |-> rows[id]])
         THEN Raise(ErrUnique, 4)
    ELSE IF TooLong(address) THEN Raise(ErrLong, 5)
    ELSE IF DomainBlocked(address.v) THEN Raise(ErrDomain, 6)
    ELSE Raise(OK, 6)

validate_email(self, key, address, rows) ==
    IF Absent(address) THEN Raise(ErrPresent, 1)
    ELSE IF ~IsStr(address) THEN Raise(ErrString, 2)
    ELSE IF NoAtSign(address) THEN Raise(ErrFormat, 3)
    ELSE IF Duplicate(address, rows) THEN Raise(ErrUnique, 4)
    ELSE IF TooLong(address) THEN Raise(ErrLong, 5)
    ELSE IF DomainBlocked(address.v) THEN Raise(ErrDomain, 6)
    ELSE Raise(OK, 6)

(* the validator gets as far as the query of line 26 *)
ReachesQuery(address) ==
    ~Absent(address) /\ IsStr(address) /\ ~NoAtSign(address)

-----------------------------------------------------------------------------
(* The table, the sessions and the mapped instances *)

Keys == {"email", "backup_email"}
(* the main thread's session and a second writer's *)
Sessions == {1, 2}

(* the columns email and backup_email of an instance, as a table row *)
Row(o) == [email |-> o.email, backup_email |-> o.backup_email]

(* the table as a session sees it: the committed rows, overlaid with the rows
   the session has flushed in its open transaction *)
ViewOf(c, t) ==
    [id \in DOMAIN c \cup DOMAIN t |-> IF id \in DOMAIN t THEN t[id] ELSE c[id]]

View(s) == ViewOf(committed, txn[s])

(* Session.flush(): every pending instance of the session is INSERTed and gets
   the next id, every persistent instance whose columns differ from its row is
   UPDATEd; both inside the session's open transaction *)
RECURSIVE FlushFrom(_, _, _, _)
FlushFrom(hs, o, t, c) ==
    IF hs = <<>> THEN [objs |-> o, txn |-> t]
    ELSE LET h == Head(hs)
             view == ViewOf(c, t)
         IN  IF o[h].state = "pending"
             THEN LET id == Cardinality(DOMAIN view) + 1
                  IN  FlushFrom(Tail(hs),
                                [o EXCEPT ![h].state = "persistent", ![h].id = id],
                                (id :> Row(o[h])) @@ t, c)
             ELSE IF Row(o[h]) # view[o[h].id]
             THEN FlushFrom(Tail(hs), o, (o[h].id :> Row(o[h])) @@ t, c)
             ELSE FlushFrom(Tail(hs), o, t, c)

Flush(s) == FlushFrom(session[s], objs, txn[s], committed)

NoFlush(s) == [objs |-> objs, txn |-> txn[s]]

(* the session holds something a flush would write *)
NeedsFlush(s) ==
    \E i \in 1..Len(session[s]) :
        LET o == objs[session[s][i]] IN
        \/ o.state = "pending"
        \/ Row(o) # View(s)[o.id]

(* another session holds the database's write lock (it has flushed, not committed) *)
WriteLocked(s) == \E u \in Sessions \ {s} : DOMAIN txn[u] # {}

(* a flush of s can go ahead *)
CanFlush(s) == NeedsFlush(s) => ~WriteLocked(s)

-----------------------------------------------------------------------------
(* The record of the last validator call *)

NoCall ==
    [op |-> "none", s |-> 0, h |-> 0, key |-> "none", address |-> None,
     error |-> OK, checks |-> <<>>, own |-> FALSE, attached |-> FALSE]

(* the constructor with keyword arguments: setattr for each keyword in order, each through the
   validator; the first error ends the construction.  The result is the last
   validator call made. *)
RECURSIVE RunInit(_, _, _)
RunInit(kwargs, rows, i) ==
    LET r == validate_email(0, kwargs[i].key, kwargs[i].value, rows) IN
    IF r.error # OK \/ i = Len(kwargs)
    THEN [op |-> "init", key |-> kwargs[i].key, address |-> kwargs[i].value,
          error |-> r.error, checks |-> r.checks]
    ELSE RunInit(kwargs, rows, i + 1)

(* history: the table read by the uniqueness check did not hold the value in its
   email column *)
Unseen(value, rows) == \A id \in DOMAIN rows : rows[id].email # value

(* the value a keyword list gives a column, None when it does not name it *)
Given(kwargs, key) ==
    IF \E i \in 1..Len(kwargs) : kwargs[i].key = key
    THEN kwargs[CHOOSE i \in 1..Len(kwargs) : kwargs[i].key = key].value
    ELSE None

(* keyword lists over a set of values: no keyword, one, or both in either order *)
KwArgs(inputs) ==
    {<<>>}
    \cup {<<[key |-> k, value |-> v]>> : k \in Keys, v \in inputs}
    \cup {<<[key |-> k1, value |-> v1], [key |-> k2, value |-> v2]>> :
            <<k1, k2>> \in {<<"email", "backup_email">>, <<"backup_email", "email">>},
            <<v1, v2>> \in inputs \X inputs}

-----------------------------------------------------------------------------
(* Operations *)

(* EmailAddress(email=..., backup_email=...) in session s *)
Construct(s, kwargs) ==
    LET queries == Len(kwargs) > 0 /\ ReachesQuery(kwargs[1].value)
        f == IF queries THEN Flush(s) ELSE NoFlush(s)
        rows == ViewOf(committed, f.txn)
    IN  /\ Len(objs) < MaxObjects
        /\ queries => CanFlush(s)
        /\ txn' = [txn EXCEPT ![s] = f.txn]
        /\ IF kwargs = <<>>
           THEN /\ last' = [NoCall EXCEPT !.op = "init", !.s = s]
                /\ objs' = Append(f.objs,
                                  [owner |-> s, state |-> "transient", id |-> 0,
                                   email |-> None, backup_email |-> None,
                                   fresh |-> TRUE])
           ELSE LET r == RunInit(kwargs, rows, 1) IN
                /\ last' = [op |-> "init", s |-> s, h |-> 0, key |-> r.key,
                            address |-> r.address, error |-> r.error,
                            checks |-> r.checks, own |-> FALSE, attached |-> FALSE]
                /\ objs' = IF r.error = OK
                           THEN Append(f.objs,
                                       [owner |-> s, state |-> "transient", id |-> 0,
                                        email |-> Given(kwargs, "email"),
                                        backup_email |-> Given(kwargs, "backup_email"),
                                        fresh |-> Unseen(Given(kwargs, "email"), rows)])
                           ELSE f.objs
        /\ ops' = ops + 1
        /\ UNCHANGED <<committed, session>>

(* objs[h].<key> = value in session s *)
SetField(s, h, key, value) ==
    LET queries == ReachesQuery(value)
        f == IF queries THEN Flush(s) ELSE NoFlush(s)
        rows == ViewOf(committed, f.txn)
        r == validate_email(f.objs[h].id, key, value, rows)
    IN  /\ h \in 1..Len(objs)
        /\ objs[h].owner = s
        /\ queries => CanFlush(s)
        /\ txn' = [txn EXCEPT ![s] = f.txn]
        /\ last' = [op |-> "set", s |-> s, h |-> h, key |-> key, address |-> value,
                    error |-> r.error, checks |-> r.checks,
                    own |-> (value = objs[h].email),
                    attached |-> (objs[h].state # "transient")]
        /\ objs' = IF r.error = OK
                   THEN [f.objs EXCEPT ![h][key] = value,
                                       ![h].fresh = IF key = "email"
                                                    THEN Unseen(value, rows) ELSE @]
                   ELSE f.objs
        /\ ops' = ops + 1
        /\ UNCHANGED <<committed, session>>

(* db.session.add(objs[h]) *)
Add(s, h) ==
    /\ h \in 1..Len(objs)
    /\ objs[h].owner = s
    /\ objs[h].state = "transient"
    /\ objs' = [objs EXCEPT ![h].state = "pending"]
    /\ session' = [session EXCEPT ![s] = Append(@, h)]
    /\ last' = NoCall
    /\ ops' = ops + 1
    /\ UNCHANGED <<committed, txn>>

(* db.session.commit() *)
Commit(s) ==
    LET f == Flush(s) IN
    /\ CanFlush(s)
    /\ committed' = ViewOf(committed, f.txn)
    /\ txn' = [txn EXCEPT ![s] = <<>>]
    /\ objs' = f.objs
    /\ last' = NoCall
    /\ ops' = ops + 1
    /\ UNCHANGED session

-----------------------------------------------------------------------------
(* Inputs *)

Fill(n) == [i \in 1..n |-> "x"]

(* a string of n characters: x...x@domain *)
Long(n, domain) == Fill(n - Len(domain) - 1) \o <<"@">> \o domain

EmailAB == Str(<<"a", "@", "b">>)
EmailCD == Str(<<"c", "@", "d">>)
NoAt == Str(<<"a", "b">>)
Empty == Str(<<>>)
Hotmail == Str(<<"u", "@">> \o hotmail)
Yahoo == Str(<<"u", "@">> \o yahoo)
HotmailUpper == Str(<<"u", "@", "H">> \o Tail(hotmail))
HotmailThenAt == Str(<<"a", "@">> \o hotmail \o <<"@", "x">>)
AtThenHotmail == Str(<<"a", "@", "b", "@">> \o hotmail)
Long254 == Str(Long(MaxEmailLen, <<"b">>))
Long255 == Str(Long(MaxEmailLen + 1, <<"b">>))
Long255Hot == Str(Long(MaxEmailLen + 1, hotmail))

NonStrings == {None, Int(<<"0">>), Int(<<"7">>), Bool(<<"0">>), Bool(<<"1">>),
               List(<<>>), List(<<"1">>)}

LifecycleInputs == {NoAt, EmailAB, EmailCD}

ConcInputs == {NoAt, EmailAB}

AllInputs ==
    NonStrings \cup
    {Empty, NoAt, EmailAB, EmailCD, Hotmail, Yahoo, HotmailUpper, HotmailThenAt,
     AtThenHotmail, Long254, Long255, Long255Hot}

(* rows a table may hold when the process starts on an existing app.db *)
StoredRows ==
    [email : {None, EmailAB, Long255Hot}, backup_email : {None, EmailCD}]

RECURSIVE Tables(_)
Tables(n) ==
    IF n = 0 THEN {<<>>}
    ELSE Tables(n - 1) \cup
         {Append(t, r) : t \in {u \in Tables(n - 1) : Len(u) = n - 1}, r \in StoredRows}

-----------------------------------------------------------------------------
(* Specifications *)

Init ==
    /\ committed = <<>>
    /\ txn = [s \in Sessions |-> <<>>]
    /\ objs = <<>>
    /\ session = [s \in Sessions |-> <<>>]
    /\ last = NoCall
    /\ ops = 0

(* fewer than n operations have run *)
Budget(n) == ops < n

(* one thread, one session *)
Next ==
    \/ \E kwargs \in KwArgs(LifecycleInputs) : Budget(MaxOps) /\ Construct(1, kwargs)
    \/ \E h \in 1..MaxObjects, key \in Keys, value \in LifecycleInputs :
          Budget(MaxOps) /\ SetField(1, h, key, value)
    \/ \E h \in 1..MaxObjects : Budget(MaxOps) /\ Add(1, h)
    \/ Budget(MaxOps) /\ Commit(1)

Spec == Init /\ [][Next]_vars

(* the same, over shorter runs *)
NextShort ==
    \/ \E kwargs \in KwArgs(LifecycleInputs) :
          Budget(MaxOpsShort) /\ Construct(1, kwargs)
    \/ \E h \in 1..MaxObjects, key \in Keys, value \in LifecycleInputs :
          Budget(MaxOpsShort) /\ SetField(1, h, key, value)
    \/ \E h \in 1..MaxObjects : Budget(MaxOpsShort) /\ Add(1, h)
    \/ Budget(MaxOpsShort) /\ Commit(1)

SpecShort == Init /\ [][NextShort]_vars

(* two concurrent writers, each with its own session *)
NextConc ==
    \/ \E s \in Sessions, kwargs \in {k \in KwArgs(ConcInputs) : Len(k) <= 1} :
          Budget(MaxOps) /\ Construct(s, kwargs)
    \/ \E s \in Sessions, h \in 1..MaxObjects, key \in Keys, value \in ConcInputs :
          Budget(MaxOps) /\ SetField(s, h, key, value)
    \/ \E s \in Sessions, h \in 1..MaxObjects : Budget(MaxOps) /\ Add(s, h)
    \/ \E s \in Sessions : Budget(MaxOps) /\ Commit(s)

SpecConc == Init /\ [][NextConc]_vars

(* the validator on any value against any stored table *)
InitValidate ==
    /\ committed \in Tables(MaxRows)
    /\ txn = [s \in Sessions |-> <<>>]
    /\ objs = <<>>
    /\ session = [s \in Sessions |-> <<>>]
    /\ last = NoCall
    /\ ops = 0

NextValidate ==
    \E key \in Keys, value \in AllInputs :
        ops = 0 /\ Construct(1, <<[key |-> key, value |-> value]>>)

SpecValidate == InitValidate /\ [][NextValidate]_vars

-----------------------------------------------------------------------------
(* Properties *)

(* the last step ran the validator *)
Validated == last.op \in {"init", "set"} /\ last.key \in Keys

(* the value of the last call is a non-empty string with an '@' *)
WellFormed == Validated /\ IsStr(last.address) /\ Len(last.address.v) > 0
              /\ Contains(last.address.v, "@")

(* the rows the last call's lookup read *)
LastRows == View(last.s)

ErrorOf == <<ErrPresent, ErrString, ErrFormat, ErrUnique, ErrLong, ErrDomain>>

(* the i-th check of the order rejects the value *)
Fails(i, a, rows) ==
    CASE i = 1 -> Absent(a)
      [] i = 2 -> ~IsStr(a)
      [] i = 3 -> IsStr(a) /\ NoAtSign(a)
      [] i = 4 -> Duplicate(a, rows)
      [] i = 5 -> TooLong(a)
      [] i = 6 -> IsStr(a) /\ Contains(a.v, "@") /\ DomainBlocked(a.v)

(* C1: validate_email runs its checks in the order presence, type, '@' format,
   uniqueness, length, blocked domain; it reports the error of the first check
   that fails and runs none after it.  A value that is a duplicate and too long
   gets "Email must be unique."; one that is too long and in a blocked domain
   gets "Email is too long.". *)
C1_FirstFailureWins ==
    Validated =>
        LET a == last.address
            n == Len(last.checks)
        IN  /\ n \in 1..Len(CheckOrder)
            /\ last.checks = SubSeq(CheckOrder, 1, n)
            /\ \A i \in 1..(n - 1) : ~Fails(i, a, LastRows)
            /\ last.error # OK => Fails(n, a, LastRows) /\ last.error = ErrorOf[n]
            /\ last.error = OK => n = Len(CheckOrder) /\ ~Fails(n, a, LastRows)
            /\ (WellFormed /\ Duplicate(a, LastRows) /\ Len(a.v) > MaxEmailLen)
                   => last.error = ErrUnique
            /\ (WellFormed /\ ~Duplicate(a, LastRows) /\ Len(a.v) > MaxEmailLen
                /\ DomainBlocked(a.v))
                   => last.error = ErrLong

(* a stored value that is too long and in a blocked domain is written again *)
C1_Witness ==
    /\ WellFormed
    /\ Duplicate(last.address, LastRows)
    /\ Len(last.address.v) > MaxEmailLen
    /\ DomainBlocked(last.address.v)
    /\ last.error = ErrUnique
    /\ last.checks = SubSeq(CheckOrder, 1, 4)

(* C2: a write of a non-empty string with an '@' to email or backup_email, on
   create or on update, is rejected with "Email must be unique." exactly when a
   row of the table has that value in its email column; a value held only in
   backup_email columns never causes the rejection. *)
C2_UniqueAgainstEmailColumn ==
    WellFormed =>
        (last.error = ErrUnique
            <=> \E id \in DOMAIN LastRows : LastRows[id].email = last.address)

(* a value another row holds as backup_email only is accepted *)
C2_Witness ==
    /\ WellFormed
    /\ \E id \in DOMAIN LastRows : LastRows[id].backup_email = last.address
    /\ \A id \in DOMAIN LastRows : LastRows[id].email # last.address
    /\ last.error = OK

(* C3: no two committed rows hold the same email value. *)
C3_EmailColumnUnique ==
    \A i, j \in DOMAIN committed :
        (i # j /\ IsStr(committed[i].email))
            => committed[i].email # committed[j].email

(* s[i+1:] for i the position of the first '@' *)
AfterFirstAt(s) == SubSeq(s, Find(s, "@") + 1, Len(s))

(* C4: a value that passes the presence, type, '@', uniqueness and length checks
   is rejected with the blocked-domain error exactly when the substring after
   its first '@' is hotmail.com or yahoo.com; every other such value is accepted
   and stored as given. *)
C4_BlockedAfterFirstAt ==
    (WellFormed /\ ~Duplicate(last.address, LastRows)
     /\ Len(last.address.v) <= MaxEmailLen)
        => IF AfterFirstAt(last.address.v) \in BlockedDomains
           THEN last.error = ErrDomain
           ELSE /\ last.error = OK
                /\ last.op = "init" => objs[Len(objs)][last.key] = last.address

(* C5: when the assignment of a field of a persisted record has just been
   rejected, nothing of that mutation reaches durable storage: the record's
   committed row stays what it was. *)
C5_NoPartialWrite ==
    [][(/\ last.op = "set"
        /\ last.error # OK
        /\ objs[last.h].id \in DOMAIN committed
        /\ IsStr(committed[objs[last.h].id].email))
          => committed'[objs[last.h].id] = committed[objs[last.h].id]]_vars

(* C6 as stated: every non-string value is rejected with the type error. *)
C6_NonStringTypeError ==
    (Validated /\ ~IsStr(last.address)) => last.error = ErrString

(* None, 0, False, [] *)
FalsyNonStrings == {None, Int(<<"0">>), Bool(<<"0">>), List(<<>>)}

(* C6 amended: a non-string value is rejected with "Email must be a string."
   unless it is falsy (None, 0, False, an empty list), and then with
   "Email must be present.". *)
C6_NonStringErrors ==
    (Validated /\ ~IsStr(last.address))
        => last.error = IF last.address \in FalsyNonStrings
                        THEN ErrPresent ELSE ErrString

(* a truthy non-string gets the type error *)
C6_Witness ==
    /\ Validated
    /\ last.address = Int(<<"7">>)
    /\ last.error = ErrString

(* C7: every committed row has an email that is a non-empty string. *)
C7_EmailRequired ==
    \A id \in DOMAIN committed :
        IsStr(committed[id].email) /\ Len(committed[id].email.v) > 0

(* C8: among values that pass the checks before it, the length check rejects
   exactly those longer than 254 characters; a value of 254 characters outside
   the blocked domains is accepted. *)
C8_LengthBoundary ==
    (WellFormed /\ ~Duplicate(last.address, LastRows))
        => /\ last.error = ErrLong <=> Len(last.address.v) >= MaxEmailLen + 1
           /\ (Len(last.address.v) = MaxEmailLen /\ ~DomainBlocked(last.address.v))
                  => last.error = OK

(* a value of exactly 254 characters is accepted and stored *)
C8_Witness ==
    /\ WellFormed
    /\ Len(last.address.v) = MaxEmailLen
    /\ last.error = OK
    /\ objs # <<>>
    /\ objs[Len(objs)][last.key] = last.address

(* the instance a committed row belongs to *)
Holder(id) == CHOOSE h \in 1..Len(objs) : objs[h].id = id

(* C9: the uniqueness check is a read followed by a separate write.  Whenever
   two committed rows hold the same email, each passed its check on a read
   that did not hold the value: both reads came before either write was
   visible to the other writer. *)
C9_ReadsBeforeWrites ==
    \A i, j \in DOMAIN committed :
        (i # j /\ IsStr(committed[i].email)
         /\ committed[i].email = committed[j].email)
            => objs[Holder(i)].fresh /\ objs[Holder(j)].fresh

(* two writers have committed the same email *)
C9_Witness ==
    \E i, j \in DOMAIN committed :
        /\ i # j
        /\ IsStr(committed[i].email)
        /\ committed[i].email = committed[j].email
        /\ objs[Holder(i)].owner # objs[Holder(j)].owner
        /\ objs[Holder(i)].email = committed[i].email
        /\ objs[Holder(j)].email = committed[j].email

(* C10: the lookup does not leave out the record being written: assigning a
   record that is in the session the email value it already holds, to email or
   to backup_email, is rejected with "Email must be unique.". *)
C10_OwnValueRejected ==
    (last.op = "set" /\ last.attached /\ last.own /\ IsStr(last.address))
        => last.error = ErrUnique

(* a committed record's email is assigned the value it holds *)
C10_Witness ==
    /\ last.op = "set"
    /\ last.key = "email"
    /\ last.own
    /\ IsStr(last.address)
    /\ objs[last.h].id \in DOMAIN committed
    /\ committed[objs[last.h].id].email = last.address
    /\ last.error = ErrUnique

====
